---- MODULE Spec2Model ----
(***************************************************************************)
(* Transcript repair of openclaw: the tool-call input sanitizer, the       *)
(* tool-result pairing repairer and the tool-call textifier of             *)
(* session-transcript-repair, as pure functions over a message sequence,   *)
(* and the transcript policy resolver, applied by the actions of small     *)
(* state machines whose initial states range over bounded inputs; and the  *)
(* token cache of resolveCopilotApiToken.                                  *)
(***************************************************************************)
EXTENDS Integers, Sequences, FiniteSets, TLC

VARIABLES
    input,      \* the transcript handed to the transform (messages tagged with ref)
    pc,         \* which transform has run
    report,     \* ToolUseRepairReport of repairToolUseResultPairing(input)
    report2,    \* ToolUseRepairReport of repairToolUseResultPairing(report.messages)
    textified,  \* result of textifyToolCallRounds(input)
    textified2, \* result of textifyToolCallRounds(textified.messages)
    sanitized,  \* ToolCallInputRepairReport of repairToolCallInputs(input)
    request,    \* the (modelApi, provider, modelId) handed to resolveTranscriptPolicy
    policy,     \* the TranscriptPolicy it returned
    cache,      \* the token cache file of resolveCopilotApiToken
    clock,      \* Date.now(), in milliseconds
    response,   \* the response of the token endpoint to the current call
    outcome,    \* what the current call of resolveCopilotApiToken returned
    cacheAtCall,   \* the cache as the current call loaded it
    checkedAt,     \* Date.now() when the current call tested the cached entry
    endpointCalls, \* requests the current call sent to the token endpoint
    cacheWrites,   \* saveJsonFile calls of the current call
    runs           \* calls of resolveCopilotApiToken so far

copilotVars ==
    <<cache, clock, response, outcome, cacheAtCall, checkedAt, endpointCalls,
      cacheWrites, runs>>

vars ==
    <<input, pc, report, report2, textified, textified2, sanitized, request, policy,
      copilotVars>>

(***************************************************************************)
(* Bounds of the model.                                                    *)
(***************************************************************************)
MaxLen == 4

\* the longest tool-result text the truncation is run on
MaxResultChars == 802

\* the number of calls of resolveCopilotApiToken in a run
MaxRuns == 2

(***************************************************************************)
(* JavaScript values.  A field that is absent reads as undefined; both are *)
(* written as reserved strings so that every field stays comparable.       *)
(***************************************************************************)
Undefined == "<undefined>"
Null == "<null>"
NonObject == "<non-object>"

IsString(v) == v \notin {Undefined, Null, NonObject}

\* typeof v === "string" && v  (a non-empty string)
IsNonEmptyString(v) == IsString(v) /\ v # ""

\* !msg || typeof msg !== "object", negated
IsObject(m) == m.role # NonObject

(***************************************************************************)
(* Content: a plain string or an array of blocks (Array.isArray).          *)
(***************************************************************************)
StrContent(s) == [isArray |-> FALSE, str |-> s, blocks |-> <<>>]
ArrContent(bs) == [isArray |-> TRUE, str |-> Undefined, blocks |-> bs]
NoContent == [isArray |-> FALSE, str |-> Undefined, blocks |-> <<>>]

TextBlock(t) ==
    [type |-> "text", id |-> Undefined, name |-> Undefined,
     input |-> Undefined, arguments |-> Undefined, text |-> t]

CallBlock(ty, id, name, inp, args) ==
    [type |-> ty, id |-> id, name |-> name,
     input |-> inp, arguments |-> args, text |-> Undefined]

(***************************************************************************)
(* Messages.  ref names the object: input message k carries ref k, and an  *)
(* object the transform allocates carries ref 0.                           *)
(***************************************************************************)
Msg(role, content, stopReason, toolCallId, toolUseId, toolName, isError, ts) ==
    [ref |-> 0, role |-> role, content |-> content, stopReason |-> stopReason,
     toolCallId |-> toolCallId, toolUseId |-> toolUseId, toolName |-> toolName,
     isError |-> isError, timestamp |-> ts]

UserMsg(s) ==
    Msg("user", StrContent(s), Undefined, Undefined, Undefined, Undefined, Undefined, Undefined)

AssistantMsg(blocks, stopReason) ==
    Msg("assistant", ArrContent(blocks), stopReason, Undefined, Undefined, Undefined, Undefined, Undefined)

ToolResultMsg(toolCallId, toolUseId, toolName, content, ts) ==
    Msg("toolResult", content, Undefined, toolCallId, toolUseId, toolName, "false", ts)

NonObjectMsg ==
    Msg(NonObject, NoContent, Undefined, Undefined, Undefined, Undefined, Undefined, Undefined)

TOOL_CALL_TYPES_NoFunctionCall == {"toolCall", "toolUse"}

TOOL_CALL_TYPES == {"toolCall", "toolUse", "functionCall"}

(***************************************************************************)
(* extractToolCallsFromAssistant: the {id, name} of every block with a     *)
(* non-empty string id and an invocation type, in content order.           *)
(***************************************************************************)
RECURSIVE ExtractCalls(_, _)
ExtractCalls(blocks, k) ==
    IF k > Len(blocks) THEN <<>>
    ELSE LET rec == blocks[k] IN
         IF rec.type = NonObject THEN ExtractCalls(blocks, k + 1)
         ELSE IF ~IsNonEmptyString(rec.id) THEN ExtractCalls(blocks, k + 1)
         ELSE IF rec.type = "toolCall" \/ rec.type = "toolUse" \/ rec.type = "functionCall"
              THEN <<[id |-> rec.id,
                      name |-> IF IsString(rec.name) THEN rec.name ELSE Undefined]>>
                   \o ExtractCalls(blocks, k + 1)
              ELSE ExtractCalls(blocks, k + 1)

extractToolCallsFromAssistant(msg) ==
    IF ~msg.content.isArray THEN <<>> ELSE ExtractCalls(msg.content.blocks, 1)

\* extractToolResultId: toolCallId, else toolUseId, else null
extractToolResultId(msg) ==
    IF IsNonEmptyString(msg.toolCallId) THEN msg.toolCallId
    ELSE IF IsNonEmptyString(msg.toolUseId) THEN msg.toolUseId
    ELSE Null

MISSING_TEXT ==
    "[openclaw] missing tool result in session history; inserted synthetic error result for transcript repair."

\* makeMissingToolResult; now is the value Date.now() returns
makeMissingToolResult(toolCallId, toolName, now) ==
    [ref |-> 0, role |-> "toolResult",
     content |-> ArrContent(<<TextBlock(MISSING_TEXT)>>),
     stopReason |-> Undefined,
     toolCallId |-> toolCallId, toolUseId |-> Undefined,
     toolName |-> IF toolName \in {Undefined, Null} THEN "unknown" ELSE toolName,
     isError |-> "true", timestamp |-> now]

(***************************************************************************)
(* repairToolUseResultPairing.  st is the function's local state:          *)
(* out, added, seenToolResultIds, droppedDuplicateCount,                   *)
(* droppedOrphanCount, moved, changed.                                     *)
(***************************************************************************)
RepairStart ==
    [out |-> <<>>, added |-> <<>>, seenToolResultIds |-> {},
     droppedDuplicateCount |-> 0, droppedOrphanCount |-> 0,
     moved |-> FALSE, changed |-> FALSE]

\* the closure pushToolResult
pushToolResult(st, msg) ==
    LET id == extractToolResultId(msg) IN
    IF id # Null /\ id \in st.seenToolResultIds
    THEN [st EXCEPT !.droppedDuplicateCount = @ + 1, !.changed = TRUE]
    ELSE [st EXCEPT !.seenToolResultIds = IF id # Null THEN @ \cup {id} ELSE @,
                    !.out = Append(@, msg)]

\* stopReason === "error" || stopReason === "aborted"
IsSkippedStopReasonErrorOnly(stopReason) == stopReason = "error"

IsSkippedStopReason(stopReason) == stopReason = "error" \/ stopReason = "aborted"

\* for (const rem of remainder) out.push(rem)
EmitRemainderDropped(out, remainder) == out

EmitRemainder(out, remainder) == out \o remainder

\* i = j - 1, followed by the loop's i += 1: the index the scan resumes at
ResumeIndexNoSkip(i, j) == i + 1

ResumeIndex(i, j) == (j - 1) + 1

MatchesTurnAnyId(next, toolCallIds) ==
    next.role = "toolResult" /\ extractToolResultId(next) # Null

\* nextRole === "toolResult" and id && toolCallIds.has(id)
MatchesTurn(next, toolCallIds) ==
    /\ next.role = "toolResult"
    /\ extractToolResultId(next) # Null
    /\ extractToolResultId(next) \in toolCallIds

KeepOrphan(st, msg) == [st EXCEPT !.out = Append(@, msg)]

\* a toolResult outside every span: droppedOrphanCount += 1; changed = true
DropOrphan(st, msg) == [st EXCEPT !.droppedOrphanCount = @ + 1, !.changed = TRUE]

\* The lookahead of one assistant turn: sc is
\* [spanResultsById, remainder, j, droppedDuplicateCount, droppedOrphanCount, changed].
RECURSIVE ScanSpan(_, _, _, _)
ScanSpan(messages, toolCallIds, seen, sc) ==
    IF sc.j > Len(messages) THEN sc
    ELSE LET next == messages[sc.j]
             id == extractToolResultId(next)
             step == [sc EXCEPT !.j = @ + 1]
         IN
         IF ~IsObject(next)
         THEN ScanSpan(messages, toolCallIds, seen,
                       [step EXCEPT !.remainder = Append(@, next)])
         ELSE IF next.role = "assistant" THEN sc
         ELSE IF MatchesTurn(next, toolCallIds)
         THEN IF id \in seen
              THEN ScanSpan(messages, toolCallIds, seen,
                            [step EXCEPT !.droppedDuplicateCount = @ + 1,
                                         !.changed = TRUE])
              ELSE IF id \notin DOMAIN sc.spanResultsById
              THEN ScanSpan(messages, toolCallIds, seen,
                            [step EXCEPT !.spanResultsById =
                                [k \in DOMAIN @ \cup {id} |->
                                    IF k = id THEN next ELSE @[k]]])
              ELSE ScanSpan(messages, toolCallIds, seen, step)
         ELSE IF next.role # "toolResult"
         THEN ScanSpan(messages, toolCallIds, seen,
                       [step EXCEPT !.remainder = Append(@, next)])
         ELSE ScanSpan(messages, toolCallIds, seen,
                       [step EXCEPT !.droppedOrphanCount = @ + 1, !.changed = TRUE])

\* for (const call of toolCalls): emit the span result or a synthetic one
RECURSIVE EmitResults(_, _, _, _, _)
EmitResults(st, toolCalls, k, spanResultsById, now) ==
    IF k > Len(toolCalls) THEN st
    ELSE LET call == toolCalls[k] IN
         IF call.id \in DOMAIN spanResultsById
         THEN EmitResults(pushToolResult(st, spanResultsById[call.id]),
                          toolCalls, k + 1, spanResultsById, now)
         ELSE LET missing == makeMissingToolResult(call.id, call.name, now)
                  st1 == [st EXCEPT !.added = Append(@, missing), !.changed = TRUE]
              IN EmitResults(pushToolResult(st1, missing),
                             toolCalls, k + 1, spanResultsById, now)

\* the body of the main loop for an assistant turn that has tool calls
RepairTurn(messages, i, st, toolCalls, now) ==
    LET toolCallIds == {toolCalls[k].id : k \in 1..Len(toolCalls)}
        sc == ScanSpan(messages, toolCallIds, st.seenToolResultIds,
                       [spanResultsById |-> <<>>, remainder |-> <<>>, j |-> i + 1,
                        droppedDuplicateCount |-> st.droppedDuplicateCount,
                        droppedOrphanCount |-> st.droppedOrphanCount,
                        changed |-> st.changed])
        relocated == DOMAIN sc.spanResultsById # {} /\ Len(sc.remainder) > 0
        st1 == [st EXCEPT !.out = Append(@, messages[i]),
                          !.droppedDuplicateCount = sc.droppedDuplicateCount,
                          !.droppedOrphanCount = sc.droppedOrphanCount,
                          !.moved = @ \/ relocated,
                          !.changed = sc.changed \/ relocated]
        st2 == EmitResults(st1, toolCalls, 1, sc.spanResultsById, now)
    IN [st |-> [st2 EXCEPT !.out = EmitRemainder(@, sc.remainder)],
        i |-> ResumeIndex(i, sc.j)]

RECURSIVE RepairLoop(_, _, _, _)
RepairLoop(messages, i, st, now) ==
    IF i > Len(messages) THEN st
    ELSE LET msg == messages[i]
             pushed == [st EXCEPT !.out = Append(@, msg)]
         IN
         IF ~IsObject(msg) THEN RepairLoop(messages, i + 1, pushed, now)
         ELSE IF msg.role # "assistant"
         THEN IF msg.role # "toolResult"
              THEN RepairLoop(messages, i + 1, pushed, now)
              ELSE RepairLoop(messages, i + 1, DropOrphan(st, msg), now)
         ELSE IF IsSkippedStopReason(msg.stopReason)
         THEN RepairLoop(messages, i + 1, pushed, now)
         ELSE LET toolCalls == extractToolCallsFromAssistant(msg) IN
              IF Len(toolCalls) = 0
              THEN RepairLoop(messages, i + 1, pushed, now)
              ELSE LET t == RepairTurn(messages, i, st, toolCalls, now)
                   IN RepairLoop(messages, t.i, t.st, now)

\* sameRef: the returned messages are the input array itself
repairToolUseResultPairing(messages, now) ==
    LET st == RepairLoop(messages, 1, RepairStart, now)
        changedOrMoved == st.changed \/ st.moved
    IN [messages |-> IF changedOrMoved THEN st.out ELSE messages,
        sameRef |-> ~changedOrMoved,
        added |-> st.added,
        droppedDuplicateCount |-> st.droppedDuplicateCount,
        droppedOrphanCount |-> st.droppedOrphanCount,
        moved |-> changedOrMoved]

(***************************************************************************)
(* textifyToolCallRounds.                                                  *)
(***************************************************************************)
\* isToolCallBlock: an object whose type is one of TOOL_CALL_TYPES
isToolCallBlock(block) ==
    block.type # NonObject /\ IsString(block.type) /\ block.type \in TOOL_CALL_TYPES

hasToolCallInputOnlyInput(block) ==
    block.input # Undefined /\ block.input # Null

\* hasToolCallInput
hasToolCallInput(block) ==
    LET hasInput == block.input # Undefined /\ block.input # Null
        hasArguments == block.arguments # Undefined /\ block.arguments # Null
    IN hasInput \/ hasArguments

(***************************************************************************)
(* repairToolCallInputs.                                                   *)
(***************************************************************************)
\* for (const block of msg.content): r is [nextContent, droppedInMessage]
RECURSIVE SanitizeBlocks(_, _, _)
SanitizeBlocks(content, k, r) ==
    IF k > Len(content) THEN r
    ELSE IF isToolCallBlock(content[k]) /\ ~hasToolCallInput(content[k])
         THEN SanitizeBlocks(content, k + 1,
                  [r EXCEPT !.droppedInMessage = @ + 1])
         ELSE SanitizeBlocks(content, k + 1,
                  [r EXCEPT !.nextContent = Append(@, content[k])])

DropsMessageWhenEmpty(r) == Len(r.nextContent) = 0

\* droppedInMessage > 0 and nextContent.length === 0
DropsMessage(r) == r.droppedInMessage > 0 /\ Len(r.nextContent) = 0

\* the loop over the messages; st is [out, droppedToolCalls,
\* droppedAssistantMessages, changed]
RECURSIVE SanitizeLoop(_, _, _)
SanitizeLoop(messages, i, st) ==
    IF i > Len(messages) THEN st
    ELSE LET msg == messages[i]
             pushed == [st EXCEPT !.out = Append(@, msg)]
         IN
         IF ~IsObject(msg) THEN SanitizeLoop(messages, i + 1, pushed)
         ELSE IF msg.role # "assistant" \/ ~msg.content.isArray
         THEN SanitizeLoop(messages, i + 1, pushed)
         ELSE LET r == SanitizeBlocks(msg.content.blocks, 1,
                           [nextContent |-> <<>>, droppedInMessage |-> 0])
                  counted == [st EXCEPT
                                !.droppedToolCalls = @ + r.droppedInMessage,
                                !.changed = @ \/ r.droppedInMessage > 0]
              IN IF DropsMessage(r)
                 THEN SanitizeLoop(messages, i + 1,
                          [counted EXCEPT !.droppedAssistantMessages = @ + 1,
                                          !.changed = TRUE])
                 ELSE IF r.droppedInMessage > 0
                 THEN SanitizeLoop(messages, i + 1,
                          [counted EXCEPT !.out =
                              Append(@, [msg EXCEPT
                                           !.ref = 0,
                                           !.content = ArrContent(r.nextContent)])])
                 ELSE SanitizeLoop(messages, i + 1, [counted EXCEPT !.out = Append(@, msg)])

SanitizeReportAlwaysOut(messages, st) ==
    [messages |-> st.out, sameRef |-> FALSE,
     droppedToolCalls |-> st.droppedToolCalls,
     droppedAssistantMessages |-> st.droppedAssistantMessages]

\* messages: changed ? out : messages
SanitizeReport(messages, st) ==
    [messages |-> IF st.changed THEN st.out ELSE messages,
     sameRef |-> ~st.changed,
     droppedToolCalls |-> st.droppedToolCalls,
     droppedAssistantMessages |-> st.droppedAssistantMessages]

\* sameRef: the returned array is the input array itself
repairToolCallInputs(messages) ==
    SanitizeReport(messages,
        SanitizeLoop(messages, 1,
            [out |-> <<>>, droppedToolCalls |-> 0,
             droppedAssistantMessages |-> 0, changed |-> FALSE]))

\* Argument payloads are written "<kind>:<what>"; JSON.stringify of each
JSONstringify(v) ==
    CASE v = "obj:path" -> "{\"path\":\"file.txt\"}"
      [] v = "obj:cmd" -> "{\"cmd\":\"ls\"}"
      [] v = "obj:" -> "{}"
      [] v = "num:0" -> "0"
      [] v = "str:" -> "\"\""
      [] OTHER -> "null"

\* the truthiness test of `args ? ... : ...`
IsTruthy(v) == v \notin {Undefined, Null, "num:0", "str:"}

\* a ?? b
Coalesce(a, b) == IF a = Undefined \/ a = Null THEN b ELSE a

TEXTIFY_MAX_RESULT_CHARS == 800

\* "… (truncated)": U+2026 is written "~" here, one character as in the source
TRUNCATED_MARKER == "~ (truncated)"

truncateToolResultForTextifyStrict(text) ==
    IF Len(text) < TEXTIFY_MAX_RESULT_CHARS THEN text
    ELSE SubSeq(text, 1, TEXTIFY_MAX_RESULT_CHARS) \o TRUNCATED_MARKER

truncateToolResultForTextify(text) ==
    IF Len(text) <= TEXTIFY_MAX_RESULT_CHARS THEN text
    ELSE SubSeq(text, 1, TEXTIFY_MAX_RESULT_CHARS) \o TRUNCATED_MARKER

\* texts.join("\n") over the text blocks of a content array
RECURSIVE JoinTexts(_, _, _)
JoinTexts(blocks, k, first) ==
    IF k > Len(blocks) THEN ""
    ELSE IF blocks[k].type # NonObject /\ blocks[k].type = "text" /\ IsString(blocks[k].text)
         THEN (IF first THEN "" ELSE "\n") \o blocks[k].text
              \o JoinTexts(blocks, k + 1, FALSE)
         ELSE JoinTexts(blocks, k + 1, first)

extractToolResultText(msg) ==
    IF IsString(msg.content.str) THEN truncateToolResultForTextify(msg.content.str)
    ELSE IF ~msg.content.isArray THEN "(no content)"
    ELSE LET joined == JoinTexts(msg.content.blocks, 1, TRUE)
         IN truncateToolResultForTextify(IF joined = "" THEN "(no content)" ELSE joined)

\* toolResultById after the first pass: the first toolResult of each id
ToolResultById(messages) ==
    LET ids == {extractToolResultId(messages[k]) :
                   k \in {q \in DOMAIN messages :
                             /\ IsObject(messages[q])
                             /\ messages[q].role = "toolResult"
                             /\ extractToolResultId(messages[q]) # Null}}
    IN [id \in ids |->
           messages[CHOOSE k \in DOMAIN messages :
                       /\ IsObject(messages[k])
                       /\ messages[k].role = "toolResult"
                       /\ extractToolResultId(messages[k]) = id
                       /\ \A q \in 1..(k - 1) :
                             ~(/\ IsObject(messages[q])
                               /\ messages[q].role = "toolResult"
                               /\ extractToolResultId(messages[q]) = id)]]

IsTextifiedBlockNonEmptyId(block) == isToolCallBlock(block) /\ IsNonEmptyString(block.id)

\* the blocks textification rewrites, and the others
IsTextifiedBlock(block) == isToolCallBlock(block) /\ IsString(block.id)

toolCallBlocks(content) == SelectSeq(content, IsTextifiedBlock)

otherBlocksKeepAll(content) == content

otherBlocks(content) == SelectSeq(content, LAMBDA b : ~IsTextifiedBlock(b))

\* `[Called tool ${name}(${argsStr})]`
CalledToolLine(tc) ==
    LET name == Coalesce(tc.name, "unknown_tool")
        args == Coalesce(tc.input, tc.arguments)
        argsStr == IF IsTruthy(args) THEN JSONstringify(args) ELSE "{}"
    IN "[Called tool " \o name \o "(" \o argsStr \o ")]"

\* the user message a consumed toolResult is converted into
ConvertedResult(tc, result, now) ==
    [ref |-> 0, role |-> "user",
     content |-> StrContent("[Tool " \o Coalesce(tc.name, "unknown_tool")
                            \o " result: " \o extractToolResultText(result) \o "]"),
     stopReason |-> Undefined, toolCallId |-> Undefined, toolUseId |-> Undefined,
     toolName |-> Undefined, isError |-> Undefined,
     timestamp |-> Coalesce(result.timestamp, now)]

\* for (const tc of toolCallBlocks): r is [textParts, resultMessages, consumed]
RECURSIVE TextifyCalls(_, _, _, _, _)
TextifyCalls(tcs, k, byId, r, now) ==
    IF k > Len(tcs) THEN r
    ELSE LET tc == tcs[k]
             line == CalledToolLine(tc)
             r1 == [r EXCEPT !.textParts =
                       IF k = 1 THEN line ELSE @ \o "\n" \o line]
         IN IF tc.id \in DOMAIN byId
            THEN TextifyCalls(tcs, k + 1, byId,
                     [r1 EXCEPT !.consumed = @ \cup {tc.id},
                                !.resultMessages =
                                    Append(@, ConvertedResult(tc, byId[tc.id], now))],
                     now)
            ELSE TextifyCalls(tcs, k + 1, byId, r1, now)

\* out.push({ ...msg, content: newContent }); out.push(...resultMessages)
EmitRoundResultsFirst(out, rebuilt, resultMessages) ==
    (out \o resultMessages) \o <<rebuilt>>

EmitRound(out, rebuilt, resultMessages) ==
    Append(out, rebuilt) \o resultMessages

IsConsumedAnyId(msg, consumedToolResultIds) == extractToolResultId(msg) # Null

\* id && consumedToolResultIds.has(id)
IsConsumed(msg, consumedToolResultIds) ==
    /\ extractToolResultId(msg) # Null
    /\ extractToolResultId(msg) \in consumedToolResultIds

\* the second pass; st is [out, consumedToolResultIds, changed]
RECURSIVE TextifyLoop(_, _, _, _, _)
TextifyLoop(messages, i, byId, st, now) ==
    IF i > Len(messages) THEN st
    ELSE LET msg == messages[i]
             pushed == [st EXCEPT !.out = Append(@, msg)]
         IN
         IF ~IsObject(msg) THEN TextifyLoop(messages, i + 1, byId, pushed, now)
         ELSE IF msg.role = "toolResult"
         THEN IF IsConsumed(msg, st.consumedToolResultIds)
              THEN TextifyLoop(messages, i + 1, byId, [st EXCEPT !.changed = TRUE], now)
              ELSE TextifyLoop(messages, i + 1, byId, pushed, now)
         ELSE IF msg.role # "assistant" \/ ~msg.content.isArray
         THEN TextifyLoop(messages, i + 1, byId, pushed, now)
         ELSE LET tcs == toolCallBlocks(msg.content.blocks) IN
              IF Len(tcs) = 0
              THEN TextifyLoop(messages, i + 1, byId, pushed, now)
              ELSE LET r == TextifyCalls(tcs, 1, byId,
                                [textParts |-> "", resultMessages |-> <<>>,
                                 consumed |-> st.consumedToolResultIds], now)
                       newContent == otherBlocks(msg.content.blocks)
                                         \o <<TextBlock(r.textParts)>>
                       rebuilt == [msg EXCEPT !.ref = 0,
                                              !.content = ArrContent(newContent)]
                   IN TextifyLoop(messages, i + 1, byId,
                          [out |-> EmitRound(st.out, rebuilt, r.resultMessages),
                           consumedToolResultIds |-> r.consumed,
                           changed |-> TRUE],
                          now)

\* sameRef: the returned array is the input array itself
textifyToolCallRounds(messages, now) ==
    LET st == TextifyLoop(messages, 1, ToolResultById(messages),
                  [out |-> <<>>, consumedToolResultIds |-> {}, changed |-> FALSE], now)
    IN [messages |-> IF st.changed THEN st.out ELSE messages,
        sameRef |-> ~st.changed]

(***************************************************************************)
(* The transcripts the repairer is run on: every sequence of at most       *)
(* MaxLen messages over RepairAlphabet.                                    *)
(***************************************************************************)
\* Date.now() at the first and at the second run: the clock has moved on
NowFirst == "t1"
NowSecond == "t2"

CallA == CallBlock("toolCall", "a", "read", "obj:path", Undefined)
CallA2 == CallBlock("toolUse", "a", Undefined, Undefined, "obj:")
CallB == CallBlock("functionCall", "b", "exec", Undefined, "obj:cmd")
CallNoId == CallBlock("toolCall", "", "read", "obj:path", Undefined)

AsstA == AssistantMsg(<<CallA>>, "toolUse")
AsstAB == AssistantMsg(<<TextBlock("let me look"), CallA2, CallB>>, Undefined)
AsstAA == AssistantMsg(<<CallA, CallA2>>, "toolUse")
AsstText == AssistantMsg(<<TextBlock("done"), CallNoId>>, "stop")
AsstError == AssistantMsg(<<CallA>>, "error")
AsstAborted == AssistantMsg(<<CallB>>, "aborted")
ResultA == ToolResultMsg("a", Undefined, "read", ArrContent(<<TextBlock("file body")>>), "t0")
ResultB == ToolResultMsg(Undefined, "b", "exec", StrContent("exit 0"), Undefined)
ResultNoId == ToolResultMsg("", Undefined, "read", StrContent("lost"), "t0")

\* blocks and messages the textifier is also run on
CallUndefId == CallBlock("toolCall", Undefined, "read", "obj:path", Undefined)
CallB0 == CallBlock("functionCall", "b", "exec", "num:0", "obj:cmd")
AsstMixed ==
    AssistantMsg(<<TextBlock("let me look"), CallUndefId, CallB0, TextBlock("and"), CallA2>>,
                 Undefined)
AsstPlain == AssistantMsg(<<TextBlock("hi there")>>, "stop")
AsstUndefId == AssistantMsg(<<CallUndefId>>, "toolUse")
ResultA2 ==
    ToolResultMsg(Undefined, "a", "read",
                  ArrContent(<<TextBlock("line 1"), TextBlock("line 2")>>), Undefined)

TextifyAlphabet ==
    {UserMsg("hi"), AsstA, AsstMixed, AsstText, AsstPlain, AsstUndefId,
     ResultA, ResultA2, ResultB, ResultNoId}

RepairAlphabet ==
    {UserMsg("hi"), NonObjectMsg, AsstA, AsstAB, AsstAA, AsstText, AsstError,
     AsstAborted, ResultA, ResultB, ResultNoId}

\* input is a transcript of n messages over alphabet, message k carrying ref k
IsTranscript(alphabet) ==
    \E n \in 0..MaxLen : \E f \in [1..n -> alphabet] :
        input = [k \in 1..n |-> [f[k] EXCEPT !.ref = k]]

NoTextified == [messages |-> <<>>, sameRef |-> FALSE]

NoReport ==
    [messages |-> <<>>, sameRef |-> FALSE, added |-> <<>>,
     droppedDuplicateCount |-> 0, droppedOrphanCount |-> 0, moved |-> FALSE]

NoSanitized ==
    [messages |-> <<>>, sameRef |-> FALSE, droppedToolCalls |-> 0,
     droppedAssistantMessages |-> 0]

NoRequest == [modelApi |-> "", provider |-> "", modelId |-> ""]

NoPolicy ==
    [textifyToolCallHistory |-> FALSE, repairToolUseResultPairing |-> FALSE,
     allowSyntheticToolResults |-> FALSE, splitParallelToolCalls |-> FALSE]

\* the cache file does not exist
NoCache ==
    [present |-> FALSE, token |-> Undefined, expiresIsNumber |-> FALSE,
     expiresAt |-> 0, updatedAt |-> 0]

\* a response body that is no object
NoBody ==
    [isObject |-> FALSE, token |-> Undefined, expiresKind |-> "missing",
     expiresNum |-> 0, expiresStr |-> ""]

NoResponse == [kind |-> "none", body |-> NoBody]

NoOutcome == [token |-> Undefined, expiresAt |-> 0, source |-> Undefined]

\* no transform has run yet
NothingRun ==
    /\ pc = "start"
    /\ report = NoReport
    /\ report2 = NoReport
    /\ textified = NoTextified
    /\ textified2 = NoTextified
    /\ sanitized = NoSanitized
    /\ policy = NoPolicy

\* resolveCopilotApiToken is not in use
Idle ==
    /\ cache = NoCache
    /\ clock = 0
    /\ response = NoResponse
    /\ outcome = NoOutcome
    /\ cacheAtCall = NoCache
    /\ checkedAt = 0
    /\ endpointCalls = 0
    /\ cacheWrites = 0
    /\ runs = 0

\* nothing has run yet
Fresh == NothingRun /\ Idle

Init ==
    /\ IsTranscript(RepairAlphabet)
    /\ request = NoRequest
    /\ Fresh

\* a caller runs repairToolUseResultPairing on the transcript
Repair ==
    /\ pc = "start"
    /\ report' = repairToolUseResultPairing(input, NowFirst)
    /\ pc' = "repaired"
    /\ UNCHANGED <<input, report2, textified, textified2, sanitized, request, policy, copilotVars>>

\* a caller runs it again on the repaired transcript
RepairAgain ==
    /\ pc = "repaired"
    /\ report2' = repairToolUseResultPairing(report.messages, NowSecond)
    /\ pc' = "repaired2"
    /\ UNCHANGED <<input, report, textified, textified2, sanitized, request, policy, copilotVars>>

Next == Repair \/ RepairAgain

Spec == Init /\ [][Next]_vars

(***************************************************************************)
(* The textifier's state machine: a transcript over TextifyAlphabet, then  *)
(* textifyToolCallRounds on it, and once more on what it returned.         *)
(***************************************************************************)
InitTextify ==
    /\ IsTranscript(TextifyAlphabet)
    /\ request = NoRequest
    /\ Fresh

Textify ==
    /\ pc = "start"
    /\ textified' = textifyToolCallRounds(input, NowFirst)
    /\ pc' = "textified"
    /\ UNCHANGED <<input, report, report2, textified2, sanitized, request, policy, copilotVars>>

\* a caller runs it again on the textified transcript
TextifyAgain ==
    /\ pc = "textified"
    /\ textified2' = textifyToolCallRounds(textified.messages, NowSecond)
    /\ pc' = "textified2"
    /\ UNCHANGED <<input, report, report2, textified, sanitized, request, policy, copilotVars>>

NextTextify == Textify \/ TextifyAgain

SpecTextify == InitTextify /\ [][NextTextify]_vars

(***************************************************************************)
(* The pipeline order: repairToolUseResultPairing on the transcript, then  *)
(* textifyToolCallRounds on the repaired messages.                         *)
(***************************************************************************)
TextifyRepaired ==
    /\ pc = "repaired"
    /\ textified' = textifyToolCallRounds(report.messages, NowSecond)
    /\ pc' = "piped"
    /\ UNCHANGED <<input, report, report2, textified2, sanitized, request, policy, copilotVars>>

NextPipeline == Repair \/ TextifyRepaired

SpecPipeline == Init /\ [][NextPipeline]_vars

(***************************************************************************)
(* The sanitizer's state machine: a transcript over SanitizeAlphabet, then *)
(* repairToolCallInputs on it.                                             *)
(***************************************************************************)
CallNoPayload == CallBlock("toolCall", "a", "read", Undefined, Undefined)
CallNullPayload == CallBlock("toolUse", "b", "exec", Null, Null)
CallZero == CallBlock("functionCall", Undefined, Undefined, "num:0", Null)
OtherBlockNoPayload == CallBlock("tool_call", "a", "read", Undefined, Undefined)

AsstNoPayload == AssistantMsg(<<CallNoPayload>>, "toolUse")
AsstNullPayload ==
    AssistantMsg(<<TextBlock("let me look"), CallNullPayload, CallB, CallNoPayload,
                   OtherBlockNoPayload>>, Undefined)
AsstZero == AssistantMsg(<<CallNullPayload, CallZero>>, "toolUse")
AsstEmpty == AssistantMsg(<<>>, "stop")
AsstString ==
    Msg("assistant", StrContent("plain"), "stop", Undefined, Undefined, Undefined,
        Undefined, Undefined)

SanitizeAlphabet ==
    {UserMsg("hi"), NonObjectMsg, ResultA, AsstA, AsstText, AsstNoPayload,
     AsstNullPayload, AsstZero, AsstEmpty, AsstString}

InitSanitize ==
    /\ IsTranscript(SanitizeAlphabet)
    /\ request = NoRequest
    /\ Fresh

\* a caller runs repairToolCallInputs on the transcript
Sanitize ==
    /\ pc = "start"
    /\ sanitized' = repairToolCallInputs(input)
    /\ pc' = "sanitized"
    /\ UNCHANGED <<input, report, report2, textified, textified2, request, policy, copilotVars>>

NextSanitize == Sanitize

SpecSanitize == InitSanitize /\ [][NextSanitize]_vars

(***************************************************************************)
(* The textifier on long tool results: one round whose toolResult carries  *)
(* a text of up to MaxResultChars characters, as a string or in blocks.    *)
(***************************************************************************)
\* a text of n characters
RECURSIVE LongText(_)
LongText(n) ==
    IF n <= 10 THEN SubSeq("0123456789", 1, n)
    ELSE "0123456789" \o LongText(n - 10)

ImageBlock ==
    [type |-> "image", id |-> Undefined, name |-> Undefined,
     input |-> Undefined, arguments |-> Undefined, text |-> Undefined]

ResultShapes == {"string", "block", "blocks"}

\* a content whose text has n characters; "blocks" joins two text blocks
\* with a newline and holds two blocks that carry no text
LongContent(shape, n) ==
    CASE shape = "string" -> StrContent(LongText(n))
      [] shape = "block" -> ArrContent(<<TextBlock(LongText(n))>>)
      [] shape = "blocks" ->
            ArrContent(<<TextBlock(LongText((n - 1) \div 2)), ImageBlock,
                         TextBlock(Undefined),
                         TextBlock(LongText((n - 1) - ((n - 1) \div 2)))>>)

InitTruncate ==
    /\ \E n \in 0..MaxResultChars : \E shape \in ResultShapes :
          /\ shape = "blocks" => n >= 1
          /\ input = <<[AsstA EXCEPT !.ref = 1],
                       [ToolResultMsg("a", Undefined, "read", LongContent(shape, n), "t0")
                           EXCEPT !.ref = 2]>>
    /\ request = NoRequest
    /\ Fresh

SpecTruncate == InitTruncate /\ [][NextTextify]_vars

(***************************************************************************)
(* resolveTranscriptPolicy, by the decision rules of the design: for each  *)
(* flag the first rule that decides it wins.                               *)
(***************************************************************************)
\* modelId matches the Gemini family pattern: it holds the word gemini
IsGeminiModelId(modelId) ==
    \E i \in 1..Len(modelId) :
        i + 5 <= Len(modelId) /\ SubSeq(modelId, i, i + 5) = "gemini"

isGoogleByModelApiToo(req) ==
    req.provider = "google-generative-ai" \/ req.modelApi = "google-generative-ai"

\* rule 1: the direct Google Generative AI integration
isGoogle(req) == req.provider = "google-generative-ai"

isCopilotGeminiCompletionsOnly(req) ==
    /\ req.modelApi = "openai-completions"
    /\ req.provider = "github-copilot"
    /\ IsGeminiModelId(req.modelId)

\* rule 2: the GitHub Copilot proxy with a Gemini model
isCopilotGemini(req) ==
    req.provider = "github-copilot" /\ IsGeminiModelId(req.modelId)

resolveTranscriptPolicy(req) ==
    [textifyToolCallHistory |-> IF isGoogle(req) THEN FALSE ELSE isCopilotGemini(req),
     repairToolUseResultPairing |-> IF isGoogle(req) THEN TRUE ELSE isCopilotGemini(req),
     allowSyntheticToolResults |-> isCopilotGemini(req),
     splitParallelToolCalls |-> isCopilotGemini(req)]

ModelApis ==
    {"openai-completions", "openai-responses", "google-generative-ai",
     "anthropic-messages"}

Providers ==
    {"github-copilot", "openai", "google-generative-ai", "openrouter", "anthropic"}

ModelIds ==
    {"gemini-3-flash-preview", "gemini-2.5-pro", "google/gemini-2.5-pro", "gpt-4o",
     "claude-sonnet-4", ""}

InitPolicy ==
    /\ input = <<>>
    /\ request \in [modelApi : ModelApis, provider : Providers, modelId : ModelIds]
    /\ Fresh

\* a caller resolves the policy of its model
Resolve ==
    /\ pc = "start"
    /\ policy' = resolveTranscriptPolicy(request)
    /\ pc' = "resolved"
    /\ UNCHANGED <<input, report, report2, textified, textified2, sanitized, request, copilotVars>>

NextPolicy == Resolve

SpecPolicy == InitPolicy /\ [][NextPolicy]_vars

(***************************************************************************)
(* resolveCopilotApiToken and its token cache.  Times are milliseconds.    *)
(***************************************************************************)
isTokenUsableNoMargin(cached, t) == cached.expiresAt - t > 0

\* isTokenUsable: a safety margin of five minutes
isTokenUsable(cached, t) == cached.expiresAt - t > 5 * 60 * 1000

\* String.prototype.trim, for blanks
RECURSIVE TrimStart(_)
TrimStart(str) ==
    IF Len(str) > 0 /\ SubSeq(str, 1, 1) = " "
    THEN TrimStart(SubSeq(str, 2, Len(str)))
    ELSE str

RECURSIVE TrimEnd(_)
TrimEnd(str) ==
    IF Len(str) > 0 /\ SubSeq(str, Len(str), Len(str)) = " "
    THEN TrimEnd(SubSeq(str, 1, Len(str) - 1))
    ELSE str

Trim(str) == TrimEnd(TrimStart(str))

DigitOf(c) ==
    CASE c = "0" -> 0 [] c = "1" -> 1 [] c = "2" -> 2 [] c = "3" -> 3 [] c = "4" -> 4
      [] c = "5" -> 5 [] c = "6" -> 6 [] c = "7" -> 7 [] c = "8" -> 8 [] c = "9" -> 9
      [] OTHER -> -1

\* Number.parseInt(str, 10) of an unsigned text: the leading digits, else NaN
RECURSIVE ParseDigits(_, _, _)
ParseDigits(str, k, acc) ==
    IF k <= Len(str) /\ DigitOf(SubSeq(str, k, k)) >= 0
    THEN ParseDigits(str, k + 1,
             [isNaN |-> FALSE, value |-> acc.value * 10 + DigitOf(SubSeq(str, k, k))])
    ELSE acc

parseInt(str) == ParseDigits(TrimStart(str), 1, [isNaN |-> TRUE, value |-> 0])

\* v > 10_000_000_000 ? v : v * 1000, the comparison written without a
\* number beyond the integers of the model
ToMilliseconds(v) ==
    IF \/ v \div 100000 > 100000
       \/ (v \div 100000 = 100000 /\ v % 100000 > 0)
    THEN v
    ELSE v * 1000

ParseFailed == [ok |-> FALSE, token |-> Undefined, expiresAt |-> 0]

\* parseCopilotTokenResponse; ok = FALSE where it throws
parseCopilotTokenResponse(value) ==
    IF ~value.isObject THEN ParseFailed
    ELSE IF ~IsString(value.token) \/ Len(Trim(value.token)) = 0 THEN ParseFailed
    ELSE IF value.expiresKind = "number"
    THEN [ok |-> TRUE, token |-> value.token,
          expiresAt |-> ToMilliseconds(value.expiresNum)]
    ELSE IF value.expiresKind = "string" /\ Len(Trim(value.expiresStr)) > 0
    THEN LET parsed == parseInt(value.expiresStr) IN
         IF parsed.isNaN THEN ParseFailed
         ELSE [ok |-> TRUE, token |-> value.token,
               expiresAt |-> ToMilliseconds(parsed.value)]
    ELSE ParseFailed

\* the start of a call: loadJsonFile and the test of the cached entry
StartCall ==
    /\ cacheAtCall' = cache
    /\ checkedAt' = clock

\* the cached entry is usable: return it
ReturnCached ==
    /\ pc = "start"
    /\ cache.present /\ IsString(cache.token) /\ cache.expiresIsNumber
    /\ isTokenUsable(cache, clock)
    /\ StartCall
    /\ outcome' = [token |-> cache.token, expiresAt |-> cache.expiresAt,
                   source |-> "cache"]
    /\ pc' = "returned"
    /\ UNCHANGED <<cache, clock, response, endpointCalls, cacheWrites, runs>>
    /\ UNCHANGED <<input, report, report2, textified, textified2, sanitized,
                   request, policy>>

\* no usable entry: await fetchImpl(tokenUrl, ...)
CallEndpoint ==
    /\ pc = "start"
    /\ ~(/\ cache.present /\ IsString(cache.token) /\ cache.expiresIsNumber
         /\ isTokenUsable(cache, clock))
    /\ StartCall
    /\ endpointCalls' = endpointCalls + 1
    /\ pc' = "fetching"
    /\ UNCHANGED <<cache, clock, response, outcome, cacheWrites, runs>>
    /\ UNCHANGED <<input, report, report2, textified, textified2, sanitized,
                   request, policy>>

\* the time a request takes
Latencies == {0, 1000}

\* fetchImpl rejects, or the response is not ok: the call throws
ExchangeFails ==
    /\ pc = "fetching"
    /\ \E kind \in {"rejected", "notOk"} : response' = [kind |-> kind, body |-> NoBody]
    /\ \E d \in Latencies : clock' = clock + d
    /\ pc' = "thrown"
    /\ UNCHANGED <<cache, outcome, cacheAtCall, checkedAt, endpointCalls,
                   cacheWrites, runs>>
    /\ UNCHANGED <<input, report, report2, textified, textified2, sanitized,
                   request, policy>>

Body(token, expiresKind, expiresNum, expiresStr) ==
    [isObject |-> TRUE, token |-> token, expiresKind |-> expiresKind,
     expiresNum |-> expiresNum, expiresStr |-> expiresStr]

\* bodies of an ok response; expires_at in seconds, the clock starts at 1000 s
ResponseBodies ==
    {NoBody,
     Body("tok-new", "number", 4600, ""),
     Body("tok-short", "number", 1200, ""),
     Body("tok-new", "string", 0, "4600"),
     Body("tok-new", "string", 0, " 4600s"),
     Body("tok-new", "string", 0, "soon"),
     Body("tok-new", "string", 0, "  "),
     Body("tok-new", "nan", 0, ""),
     Body("tok-new", "missing", 0, ""),
     Body(Undefined, "number", 4600, ""),
     Body("  ", "number", 4600, "")}

\* an ok response: parse it, save the payload, return it
ExchangeAnswers ==
    /\ pc = "fetching"
    /\ \E body \in ResponseBodies : \E d \in Latencies :
          LET json == parseCopilotTokenResponse(body) IN
          /\ response' = [kind |-> "ok", body |-> body]
          /\ clock' = clock + d
          /\ IF json.ok
             THEN /\ cache' = [present |-> TRUE, token |-> json.token,
                               expiresIsNumber |-> TRUE, expiresAt |-> json.expiresAt,
                               updatedAt |-> clock']
                  /\ cacheWrites' = cacheWrites + 1
                  /\ outcome' = [token |-> json.token, expiresAt |-> json.expiresAt,
                                 source |-> "fetched"]
                  /\ pc' = "returned"
             ELSE /\ pc' = "thrown"
                  /\ UNCHANGED <<cache, cacheWrites, outcome>>
    /\ UNCHANGED <<cacheAtCall, checkedAt, endpointCalls, runs>>
    /\ UNCHANGED <<input, report, report2, textified, textified2, sanitized,
                   request, policy>>

\* the time between two calls
Waits == {0, 200000, 3400000}

\* the caller resolves the token again
CallAgain ==
    /\ pc \in {"returned", "thrown"}
    /\ runs < MaxRuns
    /\ runs' = runs + 1
    /\ \E d \in Waits : clock' = clock + d
    /\ pc' = "start"
    /\ response' = NoResponse
    /\ outcome' = NoOutcome
    /\ endpointCalls' = 0
    /\ cacheWrites' = 0
    /\ UNCHANGED <<cache, cacheAtCall, checkedAt>>
    /\ UNCHANGED <<input, report, report2, textified, textified2, sanitized,
                   request, policy>>

\* offsets of a cached expiresAt from the clock
ExpiryOffsets == {-1000, 0, 299999, 300000, 300001, 3600000}

\* the cache file before the first call: absent, a saved entry, or a file
\* whose token or expiresAt has the wrong type
InitialCaches(t) ==
    {NoCache}
      \cup {[present |-> TRUE, token |-> tok, expiresIsNumber |-> TRUE,
              expiresAt |-> t + d, updatedAt |-> t - 1000] :
                 tok \in {"tok-old", Undefined}, d \in ExpiryOffsets}
      \cup {[present |-> TRUE, token |-> "tok-old", expiresIsNumber |-> FALSE,
              expiresAt |-> 0, updatedAt |-> t - 1000]}

InitCopilot ==
    /\ input = <<>>
    /\ request = NoRequest
    /\ NothingRun
    /\ clock = 1000000
    /\ cache \in InitialCaches(clock)
    /\ response = NoResponse
    /\ outcome = NoOutcome
    /\ cacheAtCall = NoCache
    /\ checkedAt = 0
    /\ endpointCalls = 0
    /\ cacheWrites = 0
    /\ runs = 1

NextCopilot ==
    ReturnCached \/ CallEndpoint \/ ExchangeFails \/ ExchangeAnswers \/ CallAgain

SpecCopilot == InitCopilot /\ [][NextCopilot]_vars

(***************************************************************************)
(* Vocabulary of the properties.                                           *)
(***************************************************************************)
IsToolResult(m) == m.role = "toolResult"

IsAssistant(m) == m.role = "assistant"

\* an assistant turn the repairer pairs: not error/aborted, with tool calls
IsPairedTurn(m) ==
    /\ IsAssistant(m)
    /\ m.stopReason \notin {"error", "aborted"}
    /\ Len(extractToolCallsFromAssistant(m)) > 0

CallIds(m) ==
    LET calls == extractToolCallsFromAssistant(m)
    IN {calls[k].id : k \in 1..Len(calls)}

NonToolResults(msgs) == SelectSeq(msgs, LAMBDA m : ~IsToolResult(m))

\* positions of the tool results that directly follow position p
ResultBlock(msgs, p) ==
    {q \in (p + 1)..Len(msgs) : \A r \in (p + 1)..q : IsToolResult(msgs[r])}

\* positions after p up to the next assistant message or the end
Span(msgs, p) ==
    {q \in (p + 1)..Len(msgs) : \A r \in (p + 1)..q : ~IsAssistant(msgs[r])}

Remove(msgs, j) == [k \in 1..(Len(msgs) - 1) |-> IF k < j THEN msgs[k] ELSE msgs[k + 1]]

\* a synthetic result compared without its timestamp
StripSynthetic(msgs) ==
    [k \in DOMAIN msgs |->
        IF msgs[k].ref = 0 THEN [msgs[k] EXCEPT !.timestamp = Undefined] ELSE msgs[k]]

(***************************************************************************)
(* C1. The messages returned by repairToolUseResultPairing contain no two  *)
(* toolResult messages with the same correlation id.                       *)
(***************************************************************************)
C1_GlobalUniqueness ==
    pc = "repaired" =>
        \A i, j \in DOMAIN report.messages :
            (/\ i < j
             /\ IsToolResult(report.messages[i])
             /\ IsToolResult(report.messages[j])
             /\ extractToolResultId(report.messages[i]) # Null)
            => extractToolResultId(report.messages[i])
                   # extractToolResultId(report.messages[j])

(***************************************************************************)
(* C2. In the returned messages every invocation id of a paired assistant  *)
(* turn is matched by exactly one toolResult with that id in the block of  *)
(* toolResult messages that immediately follows the turn.                  *)
(***************************************************************************)
C2_PairingInvariant ==
    pc = "repaired" =>
        \A p \in DOMAIN report.messages :
            IsPairedTurn(report.messages[p]) =>
                \A c \in CallIds(report.messages[p]) :
                    Cardinality({q \in ResultBlock(report.messages, p) :
                        extractToolResultId(report.messages[q]) = c}) = 1

(***************************************************************************)
(* C3. When the repaired sequence is element for element the input, the    *)
(* input reference is returned, with moved = false, nothing added and zero *)
(* dropped counts.                                                         *)
(***************************************************************************)
C3_IdentityOnNoOp ==
    (pc = "repaired" /\ report.messages = input) =>
        /\ report.sameRef
        /\ ~report.moved
        /\ report.added = <<>>
        /\ report.droppedDuplicateCount = 0
        /\ report.droppedOrphanCount = 0

(***************************************************************************)
(* C4. Idempotence: repairing the repaired messages returns the same       *)
(* messages, element for element, synthetic results compared without their *)
(* timestamp.                                                              *)
(***************************************************************************)
C4_Idempotent ==
    pc = "repaired2" =>
        StripSynthetic(report2.messages) = StripSynthetic(report.messages)

\* the first run inserted a synthetic result and relocated a real one
C4_Witness ==
    /\ pc = "repaired2"
    /\ report.added # <<>>
    /\ \E p \in DOMAIN report.messages :
          /\ IsToolResult(report.messages[p])
          /\ report.messages[p].ref # 0
          /\ report.messages[p].ref # p

\* input[j] is the first result for an id that input[i] is the first to invoke
IsFirstMatch(i, j) ==
    /\ IsPairedTurn(input[i])
    /\ j \in Span(input, i)
    /\ IsToolResult(input[j])
    /\ extractToolResultId(input[j]) \in CallIds(input[i])
    /\ \A k \in 1..(j - 1) :
          /\ IsToolResult(input[k])
               => extractToolResultId(input[k]) # extractToolResultId(input[j])
          /\ (k # i /\ IsPairedTurn(input[k]))
               => extractToolResultId(input[j]) \notin CallIds(input[k])

(***************************************************************************)
(* C5. No message whose role is not toolResult is dropped or reordered;    *)
(* every toolResult of the output directly follows its assistant turn or   *)
(* another toolResult, so displaced messages come after the results; and a *)
(* first matching result separated from its turn is relocated into the     *)
(* result block of that turn.                                              *)
(***************************************************************************)
C5_OrderPreservation ==
    pc = "repaired" =>
        /\ NonToolResults(report.messages) = NonToolResults(input)
        /\ \A p \in DOMAIN report.messages :
              IsToolResult(report.messages[p]) =>
                  /\ p > 1
                  /\ \/ IsToolResult(report.messages[p - 1])
                     \/ IsPairedTurn(report.messages[p - 1])
        /\ \A i, j \in DOMAIN input :
              IsFirstMatch(i, j) =>
                  \E p, q \in DOMAIN report.messages :
                      /\ report.messages[p] = input[i]
                      /\ report.messages[q] = input[j]
                      /\ q \in ResultBlock(report.messages, p)

\* a matching result sat behind a user message and was moved in front of it
C5_Witness ==
    /\ pc = "repaired"
    /\ \E i, j \in DOMAIN input :
          /\ IsFirstMatch(i, j)
          /\ j = i + 2
          /\ input[i + 1].role = "user"
          /\ \E p \in DOMAIN report.messages :
                /\ p + 2 \in DOMAIN report.messages
                /\ report.messages[p] = input[i]
                /\ report.messages[p + 1] = input[j]
                /\ report.messages[p + 2] = input[i + 1]

\* input[i] and input[j] are the only two results sharing an id, and the
\* transcript without input[j] is already repaired
IsOnlyDuplicate(i, j) ==
    /\ i < j
    /\ IsToolResult(input[i])
    /\ IsToolResult(input[j])
    /\ extractToolResultId(input[i]) # Null
    /\ extractToolResultId(input[i]) = extractToolResultId(input[j])
    /\ \A k, l \in DOMAIN input :
          (/\ k < l
           /\ IsToolResult(input[k])
           /\ IsToolResult(input[l])
           /\ extractToolResultId(input[k]) = extractToolResultId(input[l]))
          => (k = i /\ l = j)
    /\ repairToolUseResultPairing(Remove(input, j), NowFirst).messages
           = Remove(input, j)

(***************************************************************************)
(* C6. When exactly two toolResult messages share a correlation id and     *)
(* nothing else needs repair, the second one is dropped from the returned  *)
(* messages and droppedDuplicateCount = 1.                                 *)
(***************************************************************************)
C6_SecondDuplicateDropped ==
    pc = "repaired" =>
        \A i, j \in DOMAIN input :
            IsOnlyDuplicate(i, j) =>
                /\ report.messages = Remove(input, j)
                /\ report.droppedDuplicateCount = 1

IsErrorTurn(m) == IsAssistant(m) /\ m.stopReason \in {"error", "aborted"}

(***************************************************************************)
(* C7. An error/aborted assistant message is emitted unchanged at the same *)
(* position among the non-toolResult messages, and no synthetic result is  *)
(* added for an invocation id that only error/aborted assistant messages   *)
(* use.                                                                    *)
(***************************************************************************)
C7_ErrorTurnsUntouched ==
    pc = "repaired" =>
        /\ \A k \in DOMAIN NonToolResults(input) :
              IsErrorTurn(NonToolResults(input)[k]) =>
                  /\ k \in DOMAIN NonToolResults(report.messages)
                  /\ NonToolResults(report.messages)[k] = NonToolResults(input)[k]
        /\ \A s \in DOMAIN report.added :
              \E i \in DOMAIN input :
                  /\ IsAssistant(input[i])
                  /\ ~IsErrorTurn(input[i])
                  /\ report.added[s].toolCallId \in CallIds(input[i])
        /\ \A p \in DOMAIN report.messages :
              report.messages[p].ref = 0 =>
                  \E i \in DOMAIN input :
                      /\ IsAssistant(input[i])
                      /\ ~IsErrorTurn(input[i])
                      /\ report.messages[p].toolCallId \in CallIds(input[i])

\* an aborted turn and an error turn with unanswered calls, next to a repaired one
C7_Witness ==
    /\ pc = "repaired"
    /\ report.added # <<>>
    /\ \E i, j \in DOMAIN input :
          /\ input[i].stopReason = "error"
          /\ input[j].stopReason = "aborted"
          /\ \A s \in DOMAIN report.added :
                report.added[s].toolCallId \notin CallIds(input[j])

HasMatchInSpan(msgs, p, id) ==
    \E q \in Span(msgs, p) :
        IsToolResult(msgs[q]) /\ extractToolResultId(msgs[q]) = id

RECURSIVE UnansweredCalls(_, _, _, _)
UnansweredCalls(msgs, p, calls, k) ==
    IF k > Len(calls) THEN <<>>
    ELSE (IF HasMatchInSpan(msgs, p, calls[k].id) THEN <<>>
          ELSE <<[toolCallId |-> calls[k].id,
                  toolName |-> IF calls[k].name = Undefined THEN "unknown"
                               ELSE calls[k].name]>>)
         \o UnansweredCalls(msgs, p, calls, k + 1)

RECURSIVE ExpectedAdded(_, _)
ExpectedAdded(msgs, p) ==
    IF p > Len(msgs) THEN <<>>
    ELSE (IF IsPairedTurn(msgs[p])
          THEN UnansweredCalls(msgs, p, extractToolCallsFromAssistant(msgs[p]), 1)
          ELSE <<>>)
         \o ExpectedAdded(msgs, p + 1)

(***************************************************************************)
(* C8. added holds exactly one synthetic result (id, tool name or          *)
(* "unknown", isError, the fixed text) for every invocation of a paired    *)
(* turn whose id has no matching toolResult in the turn's span.            *)
(***************************************************************************)
C8_AddedIsExactlyTheMissing ==
    pc = "repaired" =>
        /\ [s \in DOMAIN report.added |->
               [toolCallId |-> report.added[s].toolCallId,
                toolName |-> report.added[s].toolName]]
             = ExpectedAdded(input, 1)
        /\ \A s \in DOMAIN report.added :
              /\ report.added[s].role = "toolResult"
              /\ report.added[s].isError = "true"
              /\ report.added[s].content = ArrContent(<<TextBlock(MISSING_TEXT)>>)

(***************************************************************************)
(* Vocabulary of the textifier's properties.                               *)
(***************************************************************************)
IsInvocationBlock(b) ==
    b.type \in {"toolCall", "toolUse", "functionCall"} /\ IsString(b.id)

HasInvocation(m) ==
    /\ IsAssistant(m)
    /\ m.content.isArray
    /\ \E k \in DOMAIN m.content.blocks : IsInvocationBlock(m.content.blocks[k])

Invocations(m) == SelectSeq(m.content.blocks, IsInvocationBlock)

NonInvocations(m) == SelectSeq(m.content.blocks, LAMBDA b : ~IsInvocationBlock(b))

\* the summary line of an invocation block: its name (or "unknown_tool") and
\* its input, else its arguments, as JSON ("{}" when there is none)
ExpectedLine(b) ==
    LET name == IF b.name \in {Undefined, Null} THEN "unknown_tool" ELSE b.name
        payload == IF b.input \notin {Undefined, Null} THEN b.input ELSE b.arguments
    IN "[Called tool " \o name \o "("
         \o (IF IsTruthy(payload) THEN JSONstringify(payload) ELSE "{}") \o ")]"

RECURSIVE JoinLines(_, _)
JoinLines(tcs, k) ==
    IF k > Len(tcs) THEN ""
    ELSE (IF k = 1 THEN "" ELSE "\n") \o ExpectedLine(tcs[k]) \o JoinLines(tcs, k + 1)

\* a message the textifier built: a rebuilt assistant or a converted result
IsRebuilt(m) == m.role = "assistant" /\ m.ref = 0

IsConverted(m) == m.role = "user" /\ m.ref = 0

\* the input assistant message that output position p stems from
SourceOf(p) ==
    SelectSeq(input, IsAssistant)[
        Cardinality({q \in 1..p : IsAssistant(textified.messages[q])})]

HasResult(id) ==
    \E q \in DOMAIN input :
        IsToolResult(input[q]) /\ extractToolResultId(input[q]) = id

FirstResult(id) ==
    input[CHOOSE q \in DOMAIN input :
             /\ IsToolResult(input[q])
             /\ extractToolResultId(input[q]) = id
             /\ \A r \in 1..(q - 1) :
                   ~(IsToolResult(input[r]) /\ extractToolResultId(input[r]) = id)]

\* the invocations of m that have a toolResult somewhere in the input
Answered(m) == SelectSeq(Invocations(m), LAMBDA b : HasResult(b.id))

(***************************************************************************)
(* C9. No assistant message of the textified output holds a tool           *)
(* invocation block; an assistant message that had some is replaced by a   *)
(* copy holding its other blocks in order and then one text block with one *)
(* "[Called tool <name>(<args>)]" line per invocation, in order.           *)
(***************************************************************************)
C9_AssistantsTextified ==
    pc = "textified" =>
        LET ia == SelectSeq(input, IsAssistant)
            oa == SelectSeq(textified.messages, IsAssistant)
        IN /\ Len(oa) = Len(ia)
           /\ \A k \in DOMAIN oa : ~HasInvocation(oa[k])
           /\ \A k \in DOMAIN ia :
                 IF HasInvocation(ia[k])
                 THEN oa[k] = [ia[k] EXCEPT
                                 !.ref = 0,
                                 !.content = ArrContent(
                                     NonInvocations(ia[k])
                                       \o <<TextBlock(JoinLines(Invocations(ia[k]), 1))>>)]
                 ELSE oa[k] = ia[k]

\* an assistant with invocations of two types between other blocks was rebuilt
C9_Witness ==
    /\ pc = "textified"
    /\ \E p \in DOMAIN textified.messages :
          /\ IsRebuilt(textified.messages[p])
          /\ Len(Invocations(SourceOf(p))) >= 2
          /\ Len(NonInvocations(SourceOf(p))) >= 2
          /\ Len(textified.messages[p].content.blocks)
                 = Len(NonInvocations(SourceOf(p))) + 1

(***************************************************************************)
(* C10. Each rebuilt assistant message is directly followed by one user    *)
(* message "[Tool <name> result: <text>]" per invocation of it that has a  *)
(* toolResult with the same id somewhere in the transcript, in invocation  *)
(* order, and by no further converted message; converted messages appear   *)
(* nowhere else.                                                           *)
(***************************************************************************)
C10_ConvertedResultsFollow ==
    pc = "textified" =>
        LET out == textified.messages IN
        /\ \A p \in DOMAIN out :
              IsRebuilt(out[p]) =>
                  LET answered == Answered(SourceOf(p)) IN
                  /\ \A n \in DOMAIN answered :
                        /\ p + n \in DOMAIN out
                        /\ IsConverted(out[p + n])
                        /\ out[p + n].content =
                               StrContent("[Tool "
                                   \o Coalesce(answered[n].name, "unknown_tool")
                                   \o " result: "
                                   \o extractToolResultText(FirstResult(answered[n].id))
                                   \o "]")
                  /\ (p + Len(answered) + 1 \in DOMAIN out)
                        => ~IsConverted(out[p + Len(answered) + 1])
        /\ \A q \in DOMAIN out :
              IsConverted(out[q]) =>
                  /\ q > 1
                  /\ IsRebuilt(out[q - 1]) \/ IsConverted(out[q - 1])

\* one round got two converted results, another round got none
C10_Witness ==
    /\ pc = "textified"
    /\ \E p, r \in DOMAIN textified.messages :
          /\ IsRebuilt(textified.messages[p])
          /\ Len(Answered(SourceOf(p))) = 2
          /\ IsConverted(textified.messages[p + 2])
          /\ IsRebuilt(textified.messages[r])
          /\ Len(Invocations(SourceOf(r))) > Len(Answered(SourceOf(r)))

(***************************************************************************)
(* Vocabulary of C11: the toolResult messages some assistant consumes.     *)
(***************************************************************************)
ToolNames == {"read", "exec", "unknown_tool"}

\* input[q] is a toolResult whose id is the id of some assistant's invocation
IsConsumedResult(q) ==
    /\ IsToolResult(input[q])
    /\ extractToolResultId(input[q]) # Null
    /\ \E k \in DOMAIN input :
          /\ HasInvocation(input[k])
          /\ \E b \in DOMAIN Invocations(input[k]) :
                Invocations(input[k])[b].id = extractToolResultId(input[q])

\* m is a converted user message whose text is the text of toolResult r
CarriesTextOf(m, r) ==
    /\ IsConverted(m)
    /\ \E n \in ToolNames :
          m.content = StrContent("[Tool " \o n \o " result: "
                                 \o extractToolResultText(r) \o "]")

(***************************************************************************)
(* C11. A toolResult whose id is invoked by some assistant message is not  *)
(* in the textified output as a toolResult message, and exactly one        *)
(* converted user message carries its text, wherever the toolResult stands *)
(* and however many assistant messages use its id.                         *)
(***************************************************************************)
C11_ConsumedResultsAppearOnce ==
    pc = "textified" =>
        \A q \in DOMAIN input :
            IsConsumedResult(q) =>
                /\ \A p \in DOMAIN textified.messages :
                      textified.messages[p].ref # q
                /\ Cardinality({p \in DOMAIN textified.messages :
                                   CarriesTextOf(textified.messages[p], input[q])}) = 1

(***************************************************************************)
(* C12. textifyToolCallRounds returns the very sequence it was given if    *)
(* and only if no assistant message of it holds a tool invocation block    *)
(* with a string id; otherwise it returns a newly built sequence.          *)
(***************************************************************************)
C12_SameReferenceIffNoInvocation ==
    pc = "textified" =>
        /\ textified.sameRef <=> ~(\E k \in DOMAIN input : HasInvocation(input[k]))
        /\ textified.sameRef => textified.messages = input

\* returned as is although an assistant holds a toolCall block (its id is no
\* string) and a toolResult with an id is present
C12_Witness ==
    /\ pc = "textified"
    /\ textified.sameRef
    /\ \E k, q \in DOMAIN input :
          /\ IsAssistant(input[k])
          /\ \E b \in DOMAIN input[k].content.blocks :
                input[k].content.blocks[b].type \in TOOL_CALL_TYPES
          /\ IsToolResult(input[q])
          /\ extractToolResultId(input[q]) # Null

\* input[q] is a message the textifier has no reason to touch
IsPassedThrough(q) ==
    \/ input[q].role = "user"
    \/ IsAssistant(input[q]) /\ ~HasInvocation(input[q])
    \/ IsToolResult(input[q]) /\ ~IsConsumedResult(q)

RECURSIVE PassedThrough(_)
PassedThrough(k) ==
    IF k > Len(input) THEN <<>>
    ELSE (IF IsPassedThrough(k) THEN <<input[k]>> ELSE <<>>) \o PassedThrough(k + 1)

(***************************************************************************)
(* C13. Every user message, every assistant message without invocation     *)
(* blocks and every toolResult whose id no assistant invokes is in the     *)
(* textified output as the same object, and these keep their relative      *)
(* order: none is dropped, copied or reordered.                            *)
(***************************************************************************)
C13_OthersPassThrough ==
    pc = "textified" =>
        SelectSeq(textified.messages,
                  LAMBDA m : m.ref # 0 /\ IsPassedThrough(m.ref))
            = PassedThrough(1)

\* a rebuilt round between an unmatched toolResult, a plain assistant and a user
C13_Witness ==
    /\ pc = "textified"
    /\ ~textified.sameRef
    /\ \E a, b, c \in DOMAIN input :
          /\ IsToolResult(input[a]) /\ IsPassedThrough(a)
              /\ extractToolResultId(input[a]) # Null
          /\ IsAssistant(input[b]) /\ IsPassedThrough(b)
          /\ input[c].role = "user"
    /\ \E p \in DOMAIN textified.messages : IsRebuilt(textified.messages[p])

(***************************************************************************)
(* C15. textifyToolCallRounds is idempotent: a second application returns  *)
(* the very sequence it was given, equal element for element to the result *)
(* of the first.                                                           *)
(***************************************************************************)
C15_TextifyIdempotent ==
    pc = "textified2" =>
        /\ textified2.sameRef
        /\ textified2.messages = textified.messages

\* the first application rebuilt an assistant and converted a result
C15_Witness ==
    /\ pc = "textified2"
    /\ ~textified.sameRef
    /\ \E p, q \in DOMAIN textified.messages :
          /\ IsRebuilt(textified.messages[p])
          /\ IsConverted(textified.messages[q])
    /\ Len(textified2.messages) >= 3

(***************************************************************************)
(* Vocabulary of C14: the text of a toolResult before any truncation.      *)
(***************************************************************************)
RECURSIVE JoinWithNewlines(_)
JoinWithNewlines(texts) ==
    IF Len(texts) = 0 THEN ""
    ELSE IF Len(texts) = 1 THEN texts[1].text
    ELSE texts[1].text \o "\n" \o JoinWithNewlines(Tail(texts))

\* the raw string content, or the text blocks joined
RawText(m) ==
    IF m.content.isArray
    THEN JoinWithNewlines(SelectSeq(m.content.blocks,
             LAMBDA b : b.type = "text" /\ IsString(b.text)))
    ELSE m.content.str

\* text as it is embedded: cut after 800 characters, then the marker
Embedded(text) ==
    IF Len(text) <= 800 THEN text ELSE SubSeq(text, 1, 800) \o "~ (truncated)"

(***************************************************************************)
(* C14 as stated. The converted result embeds the result text of length L  *)
(* unchanged if L <= 800, and otherwise its first 800 characters followed  *)
(* by the truncation marker.                                               *)
(***************************************************************************)
C14_TruncationAsStated ==
    pc = "textified" =>
        textified.messages[2].content
            = StrContent("[Tool read result: " \o Embedded(RawText(input[2])) \o "]")

(***************************************************************************)
(* C14 as amended. As stated, except that the empty joined text of a       *)
(* content array is embedded as "(no content)".                            *)
(***************************************************************************)
C14_TruncationExact ==
    pc = "textified" =>
        textified.messages[2].content
            = StrContent("[Tool read result: "
                  \o (IF input[2].content.isArray /\ RawText(input[2]) = ""
                      THEN "(no content)"
                      ELSE Embedded(RawText(input[2])))
                  \o "]")

\* a text of 801 characters in two blocks was cut to 800 and marked
C14_Witness ==
    /\ pc = "textified"
    /\ input[2].content.isArray
    /\ Len(input[2].content.blocks) > 1
    /\ Len(RawText(input[2])) = 801
    /\ Len(textified.messages[2].content.str)
           = Len("[Tool read result: ") + 800 + Len("~ (truncated)") + 1

(***************************************************************************)
(* Vocabulary of the sanitizer's properties.                               *)
(***************************************************************************)
IsInvocationType(b) == b.type \in {"toolCall", "toolUse", "functionCall"}

\* an invocation block whose input and arguments are both absent or null
IsPayloadless(b) ==
    /\ IsInvocationType(b)
    /\ b.input \in {Undefined, Null}
    /\ b.arguments \in {Undefined, Null}

\* an assistant message whose content is a sequence of blocks
HasBlocks(m) == IsAssistant(m) /\ m.content.isArray

\* the number of blocks m has to lose, and the blocks it keeps
Removed(m) ==
    IF HasBlocks(m)
    THEN Cardinality({k \in DOMAIN m.content.blocks : IsPayloadless(m.content.blocks[k])})
    ELSE 0

Remaining(m) == SelectSeq(m.content.blocks, LAMBDA b : ~IsPayloadless(b))

\* m loses a block and keeps none
IsEmptied(m) == Removed(m) > 0 /\ Len(Remaining(m)) = 0

\* the positions of the input messages that are not emptied, in order
RECURSIVE SurvivorsFrom(_)
SurvivorsFrom(k) ==
    IF k > Len(input) THEN <<>>
    ELSE (IF IsEmptied(input[k]) THEN <<>> ELSE <<k>>) \o SurvivorsFrom(k + 1)

RECURSIVE RemovedFrom(_)
RemovedFrom(k) ==
    IF k > Len(input) THEN 0 ELSE Removed(input[k]) + RemovedFrom(k + 1)

(***************************************************************************)
(* C16. repairToolCallInputs removes from every assistant message exactly  *)
(* the invocation blocks whose input and arguments are both absent or      *)
(* null, keeps the other blocks in order, and droppedToolCalls is the      *)
(* number of blocks removed over the whole transcript.                     *)
(***************************************************************************)
C16_PayloadlessBlocksRemoved ==
    pc = "sanitized" =>
        LET out == sanitized.messages
            surv == SurvivorsFrom(1)
        IN /\ Len(out) = Len(surv)
           /\ \A p \in DOMAIN out :
                 HasBlocks(input[surv[p]]) =>
                     out[p].content = ArrContent(Remaining(input[surv[p]]))
           /\ sanitized.droppedToolCalls = RemovedFrom(1)

\* one assistant lost two of its five blocks, another lost its only block
C16_Witness ==
    /\ pc = "sanitized"
    /\ sanitized.droppedToolCalls = 3
    /\ \E p \in DOMAIN sanitized.messages :
          /\ sanitized.messages[p].ref = 0
          /\ Len(sanitized.messages[p].content.blocks) = 3
    /\ Len(sanitized.messages) < Len(input)

(***************************************************************************)
(* C17. repairToolCallInputs drops an assistant message if and only if it  *)
(* lost a block and kept none; a message whose content was already empty   *)
(* or that lost no block is kept; droppedAssistantMessages is the number   *)
(* of messages dropped and the output is shorter by that number.           *)
(***************************************************************************)
C17_EmptiedAssistantsDropped ==
    pc = "sanitized" =>
        LET out == sanitized.messages
            surv == SurvivorsFrom(1)
        IN /\ sanitized.droppedAssistantMessages
                  = Cardinality({k \in DOMAIN input : IsEmptied(input[k])})
           /\ Len(out) = Len(input) - sanitized.droppedAssistantMessages
           /\ Len(out) = Len(surv)
           /\ \A p \in DOMAIN out :
                 [out[p] EXCEPT !.ref = surv[p], !.content = input[surv[p]].content]
                     = input[surv[p]]

\* one assistant was dropped, one with empty content and a trimmed one were kept
C17_Witness ==
    /\ pc = "sanitized"
    /\ sanitized.droppedAssistantMessages = 1
    /\ \E p, q \in DOMAIN sanitized.messages :
          /\ HasBlocks(sanitized.messages[p])
          /\ sanitized.messages[p].ref # 0
          /\ Len(sanitized.messages[p].content.blocks) = 0
          /\ sanitized.messages[q].ref = 0

(***************************************************************************)
(* C18. repairToolCallInputs returns the very sequence it was given if and *)
(* only if it removed no block; in a changed output every message that     *)
(* lost no block is the input object, and these keep their relative order. *)
(***************************************************************************)
C18_SanitizeSameReference ==
    pc = "sanitized" =>
        /\ sanitized.sameRef <=> (\A k \in DOMAIN input : Removed(input[k]) = 0)
        /\ sanitized.sameRef => sanitized.messages = input
        /\ SelectSeq(sanitized.messages,
                     LAMBDA m : m.ref # 0 /\ Removed(input[m.ref]) = 0)
               = SelectSeq(input, LAMBDA m : Removed(m) = 0)

\* a changed output in which an untouched assistant with an invocation
\* follows a trimmed one
C18_Witness ==
    /\ pc = "sanitized"
    /\ ~sanitized.sameRef
    /\ \E p, q \in DOMAIN sanitized.messages :
          /\ p < q
          /\ sanitized.messages[p].ref = 0
          /\ sanitized.messages[q].ref # 0
          /\ HasInvocation(sanitized.messages[q])

(***************************************************************************)
(* C19. After repairToolCallInputs every block of an invocation type that  *)
(* remains in an assistant message has a non-empty id and a non-null       *)
(* arguments payload.                                                      *)
(***************************************************************************)
C19_RemainingInvocationsValid ==
    pc = "sanitized" =>
        \A p \in DOMAIN sanitized.messages :
            HasBlocks(sanitized.messages[p]) =>
                \A k \in DOMAIN sanitized.messages[p].content.blocks :
                    LET b == sanitized.messages[p].content.blocks[k] IN
                    IsInvocationType(b) =>
                        /\ IsNonEmptyString(b.id)
                        /\ ~IsPayloadless(b)

\* the Gemini models the policy tests name
GeminiModels == {"gemini-3-flash-preview", "gemini-2.5-pro"}

(***************************************************************************)
(* C20. For provider github-copilot and a Gemini model,                    *)
(* resolveTranscriptPolicy returns textifyToolCallHistory,                 *)
(* repairToolUseResultPairing, allowSyntheticToolResults and               *)
(* splitParallelToolCalls all true, whatever modelApi is.                  *)
(***************************************************************************)
C20_CopilotGeminiEnablesAll ==
    (/\ pc = "resolved"
     /\ request.provider = "github-copilot"
     /\ request.modelId \in GeminiModels)
        => /\ policy.textifyToolCallHistory
           /\ policy.repairToolUseResultPairing
           /\ policy.allowSyntheticToolResults
           /\ policy.splitParallelToolCalls

\* resolved for copilot and a Gemini model under the Google model API
C20_Witness ==
    /\ pc = "resolved"
    /\ request = [modelApi |-> "google-generative-ai", provider |-> "github-copilot",
                  modelId |-> "gemini-2.5-pro"]
    /\ policy.textifyToolCallHistory
    /\ policy.splitParallelToolCalls

\* the model ids of the Gemini family among ModelIds
GeminiFamily == GeminiModels \cup {"google/gemini-2.5-pro"}

AllFlagsFalse(pol) ==
    /\ ~pol.textifyToolCallHistory
    /\ ~pol.repairToolUseResultPairing
    /\ ~pol.allowSyntheticToolResults
    /\ ~pol.splitParallelToolCalls

(***************************************************************************)
(* C21. Unless provider is github-copilot and the model is a Gemini model, *)
(* resolveTranscriptPolicy returns textifyToolCallHistory,                 *)
(* allowSyntheticToolResults and splitParallelToolCalls false, and         *)
(* repairToolUseResultPairing true only for the direct Google Generative   *)
(* AI integration; github-copilot with another model, openai, and          *)
(* openrouter with a Gemini model get all four flags false.                *)
(***************************************************************************)
C21_OthersGetDefaults ==
    (/\ pc = "resolved"
     /\ ~(request.provider = "github-copilot" /\ request.modelId \in GeminiFamily))
        => /\ ~policy.textifyToolCallHistory
           /\ ~policy.allowSyntheticToolResults
           /\ ~policy.splitParallelToolCalls
           /\ policy.repairToolUseResultPairing
                 <=> request.provider = "google-generative-ai"
           /\ request.provider \in {"github-copilot", "openai", "openrouter"}
                 => AllFlagsFalse(policy)

\* the direct Google integration with a Gemini model: pairing repair only
C21_Witness ==
    /\ pc = "resolved"
    /\ request = [modelApi |-> "google-generative-ai",
                  provider |-> "google-generative-ai",
                  modelId |-> "gemini-3-flash-preview"]
    /\ policy.repairToolUseResultPairing
    /\ ~policy.textifyToolCallHistory
    /\ ~policy.allowSyntheticToolResults

\* the input toolResult messages that the returned messages do not hold
AbsentResults ==
    {q \in DOMAIN input :
        /\ IsToolResult(input[q])
        /\ \A p \in DOMAIN report.messages : report.messages[p].ref # q}

(***************************************************************************)
(* C22. The audit counts of repairToolUseResultPairing account for every   *)
(* loss: every input toolResult that is absent from the returned messages  *)
(* is counted once in droppedDuplicateCount or droppedOrphanCount, so the  *)
(* output length is the input length minus both counts plus the number of  *)
(* added results.                                                          *)
(***************************************************************************)
C22_CountsAccountForLosses ==
    pc = "repaired" =>
        /\ Len(report.messages)
               = Len(input) - report.droppedDuplicateCount
                   - report.droppedOrphanCount + Len(report.added)
        /\ Cardinality(AbsentResults)
               <= report.droppedDuplicateCount + report.droppedOrphanCount

\* the position of the nearest assistant message before p, 0 if there is none
NearestAssistant(msgs, p) ==
    IF \E k \in 1..(p - 1) : IsAssistant(msgs[k])
    THEN CHOOSE k \in 1..(p - 1) :
            IsAssistant(msgs[k]) /\ \A r \in (k + 1)..(p - 1) : ~IsAssistant(msgs[r])
    ELSE 0

\* the toolResult at p answers an invocation of the turn it stands behind
IsOwned(msgs, p) ==
    LET k == NearestAssistant(msgs, p) IN
    /\ k > 0
    /\ ~IsErrorTurn(msgs[k])
    /\ extractToolResultId(msgs[p]) # Null
    /\ extractToolResultId(msgs[p]) \in CallIds(msgs[k])

\* the input toolResults behind no turn, behind a turn without invocations or
\* a failed turn, without an id, or with an id foreign to their turn
Orphans == {q \in DOMAIN input : IsToolResult(input[q]) /\ ~IsOwned(input, q)}

(***************************************************************************)
(* C23. Every toolResult in the messages repairToolUseResultPairing        *)
(* returns carries an id of the invocations of the nearest assistant       *)
(* message before it; a toolResult that precedes every assistant turn,     *)
(* follows a turn without invocations, has no id, or has an id foreign to  *)
(* its turn is dropped and counted in droppedOrphanCount.                  *)
(***************************************************************************)
C23_OnlyOwnedResultsRemain ==
    pc = "repaired" =>
        /\ \A p \in DOMAIN report.messages :
              IsToolResult(report.messages[p]) => IsOwned(report.messages, p)
        /\ \A q \in Orphans :
              \A p \in DOMAIN report.messages : report.messages[p].ref # q
        /\ report.droppedOrphanCount = Cardinality(Orphans)

\* an orphan before every turn and one behind a turn were dropped, an owned
\* result was kept
C23_Witness ==
    /\ pc = "repaired"
    /\ report.droppedOrphanCount = 2
    /\ \E q, r \in Orphans :
          /\ NearestAssistant(input, q) = 0
          /\ NearestAssistant(input, r) > 0
          /\ extractToolResultId(input[r]) # Null
    /\ \E p \in DOMAIN report.messages :
          IsToolResult(report.messages[p]) /\ report.messages[p].ref # 0

\* the turn at input position i has a matching result and another message
\* in its span
HasResultAndRemainder(i) ==
    /\ IsPairedTurn(input[i])
    /\ \E j \in Span(input, i) :
          IsToolResult(input[j]) /\ extractToolResultId(input[j]) \in CallIds(input[i])
    /\ \E k \in Span(input, i) : ~IsToolResult(input[k])

(***************************************************************************)
(* C24. moved is true if and only if some assistant turn had a matching    *)
(* span result together with a non-empty remainder; a repair that only     *)
(* drops orphans or duplicates or only adds synthetic results reports      *)
(* moved = false.                                                          *)
(***************************************************************************)
C24_MovedOnlyOnRelocation ==
    pc = "repaired" =>
        (report.moved <=> \E i \in DOMAIN input : HasResultAndRemainder(i))

\* the position of id among the invocation ids of turn m
CallIndex(m, id) ==
    LET calls == extractToolCallsFromAssistant(m)
    IN CHOOSE k \in 1..Len(calls) :
          calls[k].id = id /\ \A r \in 1..(k - 1) : calls[r].id # id

(***************************************************************************)
(* C25. The toolResult messages that follow a non-error, non-aborted       *)
(* assistant turn in the returned messages stand in the order of the       *)
(* turn's invocation ids, also when the input had them directly behind the *)
(* turn in another order.                                                  *)
(***************************************************************************)
C25_ResultsInInvocationOrder ==
    pc = "repaired" =>
        \A p \in DOMAIN report.messages :
            IsPairedTurn(report.messages[p]) =>
                \A q, r \in ResultBlock(report.messages, p) :
                    (/\ q < r
                     /\ extractToolResultId(report.messages[q])
                            \in CallIds(report.messages[p])
                     /\ extractToolResultId(report.messages[r])
                            \in CallIds(report.messages[p]))
                        => CallIndex(report.messages[p],
                                     extractToolResultId(report.messages[q]))
                             <= CallIndex(report.messages[p],
                                          extractToolResultId(report.messages[r]))

(***************************************************************************)
(* C27. Every synthetic result listed in added is in the returned          *)
(* messages, in the result block of the turn it was made for, and every    *)
(* synthetic result in the returned messages is listed in added.           *)
(***************************************************************************)
C27_AddedArePresent ==
    pc = "repaired" =>
        LET out == report.messages IN
        /\ \A s \in DOMAIN report.added :
              \E p, q \in DOMAIN out :
                  /\ IsPairedTurn(out[p])
                  /\ q \in ResultBlock(out, p)
                  /\ out[q] = report.added[s]
                  /\ report.added[s].toolCallId \in CallIds(out[p])
        /\ \A q \in DOMAIN out :
              (IsToolResult(out[q]) /\ out[q].ref = 0)
                  => \E s \in DOMAIN report.added : report.added[s] = out[q]
        /\ Cardinality({q \in DOMAIN out : IsToolResult(out[q]) /\ out[q].ref = 0})
               = Len(report.added)

\* the input toolResults that follow an error or aborted assistant message
AfterErrorTurn ==
    {q \in DOMAIN input :
        /\ IsToolResult(input[q])
        /\ NearestAssistant(input, q) > 0
        /\ IsErrorTurn(input[NearestAssistant(input, q)])}

(***************************************************************************)
(* C28. A toolResult that follows an assistant message with stopReason     *)
(* error or aborted is dropped and counted in droppedOrphanCount, also     *)
(* when its id is an invocation id of that message; no such assistant      *)
(* message is followed by a toolResult in the returned messages.           *)
(***************************************************************************)
C28_ResultsAfterErrorTurnsDropped ==
    pc = "repaired" =>
        /\ \A q \in AfterErrorTurn :
              \A p \in DOMAIN report.messages : report.messages[p].ref # q
        /\ report.droppedOrphanCount >= Cardinality(AfterErrorTurn)
        /\ \A p \in DOMAIN report.messages :
              IsErrorTurn(report.messages[p]) =>
                  ~(p + 1 \in DOMAIN report.messages
                      /\ IsToolResult(report.messages[p + 1]))

\* results with the ids of an error turn and of an aborted turn were dropped
C28_Witness ==
    /\ pc = "repaired"
    /\ report.droppedOrphanCount = 2
    /\ Cardinality(AfterErrorTurn) = 2
    /\ \E q, r \in AfterErrorTurn :
          /\ extractToolResultId(input[q]) \in CallIds(input[NearestAssistant(input, q)])
          /\ input[NearestAssistant(input, q)].stopReason = "error"
          /\ extractToolResultId(input[r]) \in CallIds(input[NearestAssistant(input, r)])
          /\ input[NearestAssistant(input, r)].stopReason = "aborted"

(***************************************************************************)
(* C26. Repair, then textify, leaves no structured tool history: the       *)
(* result holds no message with role toolResult and no assistant message   *)
(* with a tool invocation block that has a string id.                      *)
(***************************************************************************)
C26_PipelineLeavesNoToolHistory ==
    pc = "piped" =>
        \A p \in DOMAIN textified.messages :
            /\ ~IsToolResult(textified.messages[p])
            /\ ~HasInvocation(textified.messages[p])

\* a synthetic and a real result were both converted to text behind their turn
C26_Witness ==
    /\ pc = "piped"
    /\ Len(report.added) = 1
    /\ \E p \in DOMAIN report.messages :
          IsToolResult(report.messages[p]) /\ report.messages[p].ref # 0
    /\ \E p, q \in DOMAIN textified.messages :
          /\ p # q
          /\ IsConverted(textified.messages[p])
          /\ IsConverted(textified.messages[q])
          /\ textified.messages[p].content
                 = StrContent("[Tool exec result: " \o MISSING_TEXT \o "]")

\* the current call found an entry that expires more than five minutes later
FoundFreshEntry ==
    /\ cacheAtCall.present
    /\ IsString(cacheAtCall.token)
    /\ cacheAtCall.expiresIsNumber
    /\ cacheAtCall.expiresAt > checkedAt + 300000

\* the bodies that hold a token and an expiry
BodiesWithTokenAndExpiry ==
    {b \in ResponseBodies :
        /\ b.isObject
        /\ b.token \in {"tok-new", "tok-short"}
        /\ \/ b.expiresKind = "number"
           \/ b.expiresKind = "string" /\ b.expiresStr \in {"4600", " 4600s"}}

(***************************************************************************)
(* C29. resolveCopilotApiToken returns the cached token, without calling   *)
(* the token endpoint and without rewriting the cache, exactly when the    *)
(* cache holds an entry whose expiresAt is more than five minutes after    *)
(* the current time; in every other case it calls the endpoint, and it     *)
(* writes the cache only after a response that is ok and parses to a token *)
(* and an expiry, so a failed exchange leaves the cached entry unchanged.  *)
(***************************************************************************)
C29_CacheUsedOnlyWhenFresh ==
    /\ pc \in {"fetching", "returned", "thrown"} =>
          IF FoundFreshEntry
          THEN /\ pc = "returned"
               /\ outcome = [token |-> cacheAtCall.token,
                             expiresAt |-> cacheAtCall.expiresAt, source |-> "cache"]
               /\ endpointCalls = 0
               /\ cacheWrites = 0
               /\ cache = cacheAtCall
          ELSE /\ endpointCalls = 1
               /\ outcome.source # "cache"
    /\ (pc \in {"returned", "thrown"} /\ cacheWrites > 0) =>
          /\ cacheWrites = 1
          /\ response.kind = "ok"
          /\ response.body \in BodiesWithTokenAndExpiry
          /\ cache.token = response.body.token
    /\ pc = "fetching" => cache = cacheAtCall /\ cacheWrites = 0
    /\ pc = "thrown" => cache = cacheAtCall /\ cacheWrites = 0

\* a second call found the fetched entry of the first within the margin,
\* asked again and failed, and the entry is still in the cache
C29_Witness ==
    /\ pc = "thrown"
    /\ runs = 2
    /\ cacheAtCall.token = "tok-short"
    /\ cacheAtCall.expiresAt > checkedAt
    /\ ~FoundFreshEntry
    /\ endpointCalls = 1
    /\ cache = cacheAtCall

====
